---------------------------- MODULE Spec2Model ----------------------------
(***************************************************************************)
(* A model of brenns10/regex: the code generator (codegen.c), the          *)
(* assembly reader and writer (instr.c) and the Pike VM (pike.c).          *)
(*                                                                         *)
(* Characters are one-character strings; NUL stands for the C string       *)
(* terminator.  Instruction indices and label indices are 0-based as in    *)
(* the C arrays, so instruction i of a program p is p[i+1].                *)
(***************************************************************************)
EXTENDS Integers, Sequences, FiniteSets, TLC

VARIABLES
    origin,    \* where the program comes from: "regex", "asm", "api", or a test driver
    tree,      \* the parse tree handed to codegen (NoTree when none)
    text,      \* the assembly text handed to read_prog / produced by write_prog
    prog,      \* the instr array
    orig,      \* the program that write_prog was given (round-trip bookkeeping)
    status,    \* "ok", or the way the process ended abnormally
    stderr,    \* the line numbers of the messages read_prog has printed
    input,     \* the subject string, without its terminator
    pcl,       \* control location
    lastidx,   \* instr.lastidx of every instruction
    nsave,     \* execute's nsave
    heap,      \* the capture vectors allocated so far: [vec, live]
    curr,      \* thread_list curr: sequence of [pc, saved]
    next,      \* thread_list next
    stack,     \* pending addthread calls, innermost first: [pc, saved, sp, list]
    sp,        \* execute's sp
    t,         \* execute's thread index t
    match,     \* execute's match
    stashed,   \* *saved of execute's caller (0 is NULL)
    ub,        \* "none", or the undefined behaviour the run has met
    calls      \* the addthread calls made so far in the current step of execute

vars == <<origin, tree, text, prog, orig, status, stderr, input, pcl, lastidx, nsave,
          heap, curr, next, stack, sp, t, match, stashed, ub, calls>>

-----------------------------------------------------------------------------
(* Bounds of the model *)

\* inputs are all strings over InputAlphabet up to this length (plus the
\* strings of the documented scenarios)
MaxInputLen == 3

\* how far past the terminator a run is followed once it reads out of bounds
MaxOverrun == 1

-----------------------------------------------------------------------------
(* Characters *)

NUL == "NUL"

InputAlphabet == {"a", "b"}

\* isspace() of the C locale
IsSpace(ch) == ch \in {" ", "\t", "\n", "\r", "\f"}

\* instr.c:24
COMMENT == ";"

\* the characters the model uses, in increasing code order (for range())
CharOrder == <<NUL, "\t", "\n", " ", "+", "-", "0", "1", "2", "3", "4", "5",
               "6", "7", "8", "9", ":", ";", "L", "a", "b", "c", "d", "e",
               "f", "h", "i", "j", "l", "m", "o", "p", "r", "s", "t", "u",
               "v", "w", "x", "y", "z">>

Ord(ch) == CHOOSE i \in 1..Len(CharOrder) : CharOrder[i] = ch

-----------------------------------------------------------------------------
(* regex.h: struct instr.  x and y are instruction indices (or, inside the   *)
(* code generator, fragment ids); NoTarget is the zeroed pointer of an       *)
(* instruction that has no target.  blk is the block of range pairs that a   *)
(* Range/NRange instruction reaches through x.                               *)

NoTarget == -1

Instr(code, c, s, x, y, blk) ==
    [code |-> code, c |-> c, s |-> s, x |-> x, y |-> y, blk |-> blk]

IChar(c)     == Instr("Char", c, 0, NoTarget, NoTarget, <<>>)
IAny         == Instr("Any", NUL, 0, NoTarget, NoTarget, <<>>)
IMatch       == Instr("Match", NUL, 0, NoTarget, NoTarget, <<>>)
IJump(x)     == Instr("Jump", NUL, 0, x, NoTarget, <<>>)
ISplit(x, y) == Instr("Split", NUL, 0, x, y, <<>>)
ISave(s)     == Instr("Save", NUL, s, NoTarget, NoTarget, <<>>)
IRange(blk)  == Instr("Range", NUL, Len(blk) \div 2, NoTarget, NoTarget, blk)
INRange(blk) == Instr("NRange", NUL, Len(blk) \div 2, NoTarget, NoTarget, blk)

\* instruction i (0-based) of program p
At(p, i) == p[i + 1]

-----------------------------------------------------------------------------
(* pike.c: the Pike VM *)

\* the value execute() gives lastidx before a run: (size_t)-1
Sentinel == -1

\* bool range(instr in, char test): membership of test in the in.s inclusive
\* ranges of the block, negated for NRange; the terminator is in no class
range(in, test) ==
    IF test = NUL THEN FALSE
    ELSE LET result == \E i \in 0..(in.s - 1) :
                          /\ Ord(in.blk[2 * i + 1]) <= Ord(test)
                          /\ Ord(test) <= Ord(in.blk[2 * i + 2])
         IN IF in.code = "Range" THEN result ELSE ~result

\* calloc of a capture vector: the heap with the new block, whose pointer is
\* the new length
Alloc(h, vec) == Append(h, [vec |-> vec, live |-> TRUE])

\* free(p)
Free(h, p) == [h EXCEPT ![p].live = FALSE]

\* the undefined behaviour free(p) adds: a second free of the same block
FreeUb(h, p, u) == IF h[p].live THEN u ELSE "double_free"

\* input[sp]: the character, the terminator, or whatever lies behind it
InputRead(i) ==
    IF i < Len(input) THEN {input[i + 1]}
    ELSE IF i = Len(input) THEN {NUL}
    ELSE InputAlphabet \cup {NUL}

\* Consumes with the test for the terminator left out of Any
ConsumesTerminator(in, ch) ==
    CASE in.code = "Char" -> ch = in.c
      [] in.code = "Any" -> TRUE
      [] OTHER -> range(in, ch)

\* whether instruction in, at a thread of the current list, consumes ch
Consumes(in, ch) ==
    CASE in.code = "Char" -> ch = in.c
      [] in.code = "Any" -> ch # NUL
      [] OTHER -> range(in, ch)

\* execute(), lines 140-156: the lists, nsave, lastidx, and the call that
\* seeds curr at pc 0
ExecuteInit ==
    /\ pcl = "ready"
    /\ status = "ok"
    /\ LET n == Cardinality({i \in 1..Len(prog) : prog[i].code = "Save"}) IN
       /\ nsave' = n
       /\ heap' = Alloc(<<>>, [k \in 1..n |-> 0])
    /\ lastidx' = [i \in 0..(Len(prog) - 1) |-> Sentinel]
    /\ curr' = <<>>
    /\ next' = <<>>
    /\ match' = -1
    /\ sp' = 0
    /\ t' = 0
    /\ stack' = <<[pc |-> 0, saved |-> 1, sp |-> 0, list |-> "curr"]>>
    /\ pcl' = "addthread"
    /\ UNCHANGED <<origin, tree, text, prog, orig, status, stderr, input, stashed, ub>>
    /\ calls' = 0

\* where control goes when the outermost addthread call returns
Return(st, list) ==
    IF st # <<>> THEN "addthread"
    ELSE IF list = "curr" THEN "outer" ELSE "inner"

\* the callee order with pc->y first
SplitCallsYFirst(f, in, copy) ==
    <<[f EXCEPT !.pc = in.y], [f EXCEPT !.pc = in.x, !.saved = copy]>>

\* the callee order of Split: pc->x first with the original vector, then pc->y
\* with the copy
SplitCalls(f, in, copy) ==
    <<[f EXCEPT !.pc = in.x], [f EXCEPT !.pc = in.y, !.saved = copy]>>

\* the call counter after one more call; it stops counting two calls past
\* twice the program length
Counted(c, p) == IF c < 2 * Len(p) + 2 THEN c + 1 ELSE c

\* the test with the membership check left out
VisitedNever(li, pc, i) == FALSE

\* addthread(), line 97: pc->lastidx == sp, the instruction has been entered
\* at this string index already
Visited(li, pc, i) == li[pc] = i

\* one invocation of addthread(): the innermost pending call
AddThread ==
    /\ pcl = "addthread"
    /\ stack # <<>>
    /\ LET f == Head(stack)
           rest == Tail(stack)
       IN
       IF f.pc < 0 \/ f.pc >= Len(prog) THEN
           \* pc->lastidx read outside the array
           /\ ub' = "oob_instr"
           /\ \/ /\ status' = "crashed"
                 /\ pcl' = "stopped"
                 /\ UNCHANGED <<heap, stack>>
              \/ /\ heap' = Free(heap, f.saved)
                 /\ stack' = rest
                 /\ pcl' = Return(rest, f.list)
                 /\ UNCHANGED status
           /\ UNCHANGED <<lastidx, curr, next>>
       ELSE IF Visited(lastidx, f.pc, f.sp) THEN
           /\ heap' = Free(heap, f.saved)
           /\ ub' = FreeUb(heap, f.saved, ub)
           /\ stack' = rest
           /\ pcl' = Return(rest, f.list)
           /\ UNCHANGED <<lastidx, curr, next, status>>
       ELSE
           /\ lastidx' = [lastidx EXCEPT ![f.pc] = f.sp]
           /\ LET in == At(prog, f.pc) IN
              CASE in.code = "Jump" ->
                     /\ stack' = <<[f EXCEPT !.pc = in.x]>> \o rest
                     /\ pcl' = "addthread"
                     /\ UNCHANGED <<heap, curr, next, status, ub>>
                [] in.code = "Split" ->
                     /\ heap' = Alloc(heap, heap[f.saved].vec)
                     /\ stack' = SplitCalls(f, in, Len(heap) + 1) \o rest
                     /\ pcl' = "addthread"
                     /\ UNCHANGED <<curr, next, status, ub>>
                [] in.code = "Save" ->
                     IF in.s < nsave THEN
                         /\ heap' = [heap EXCEPT ![f.saved].vec[in.s + 1] = f.sp]
                         /\ ub' = IF heap[f.saved].live THEN ub ELSE "use_after_free"
                         /\ stack' = <<[f EXCEPT !.pc = f.pc + 1]>> \o rest
                         /\ pcl' = "addthread"
                         /\ UNCHANGED <<curr, next, status>>
                     ELSE
                         \* saved[pc->s] written outside the vector
                         /\ ub' = "oob_save"
                         /\ \/ /\ status' = "crashed"
                               /\ pcl' = "stopped"
                               /\ UNCHANGED stack
                            \/ /\ stack' = <<[f EXCEPT !.pc = f.pc + 1]>> \o rest
                               /\ pcl' = "addthread"
                               /\ UNCHANGED status
                         /\ UNCHANGED <<heap, curr, next>>
                [] OTHER ->
                     /\ IF f.list = "curr"
                        THEN /\ curr' = Append(curr, [pc |-> f.pc, saved |-> f.saved])
                             /\ UNCHANGED next
                        ELSE /\ next' = Append(next, [pc |-> f.pc, saved |-> f.saved])
                             /\ UNCHANGED curr
                     /\ stack' = rest
                     /\ pcl' = Return(rest, f.list)
                     /\ UNCHANGED <<heap, status, ub>>
    /\ UNCHANGED <<origin, tree, text, prog, orig, stderr, input, nsave, sp, t, match,
                   stashed>>
    /\ calls' = Counted(calls, prog)

\* the test of the for loop over sp (line 159) and, when it fails, the return
LoopTest ==
    /\ pcl = "outer"
    /\ IF Len(curr) > 0
       THEN /\ pcl' = "inner"
            /\ t' = 0
       ELSE /\ pcl' = "done"
            /\ UNCHANGED t
    /\ UNCHANGED <<origin, tree, text, prog, orig, status, stderr, input, lastidx, nsave,
                   heap, curr, next, stack, sp, match, stashed, ub>>
    /\ calls' = 0

\* stash(new, saved) with the non-NULL saved that main() passes: the heap after
\* the earlier winner, if any, is freed
stash(h, new, old) == IF old # 0 THEN Free(h, old) ELSE h

\* leaving the Match case with break: on to the next thread of the list
AfterMatchBreak(i) == [pcl |-> "inner", t |-> i + 1]

\* execute(), line 197: goto cont leaves the loop over the threads
AfterMatch(i) == [pcl |-> "cont", t |-> i]

\* the body of the for loop over t (lines 166-202) for thread t
StepThread ==
    /\ pcl = "inner"
    /\ t < Len(curr)
    /\ LET th == curr[t + 1]
           in == At(prog, th.pc)
       IN
       IF in.code = "Match" THEN
           /\ heap' = stash(heap, th.saved, stashed)
           /\ stashed' = th.saved
           /\ match' = sp
           /\ pcl' = AfterMatch(t).pcl
           /\ t' = AfterMatch(t).t
           /\ UNCHANGED <<stack, status, ub>>
       ELSE IF sp > Len(input) + MaxOverrun THEN
           \* the run is not followed further behind the terminator
           /\ status' = "crashed"
           /\ pcl' = "stopped"
           /\ ub' = "oob_input"
           /\ UNCHANGED <<heap, stashed, match, stack, t>>
       ELSE
           \E ch \in InputRead(sp) :
               /\ ub' = IF sp > Len(input) THEN "oob_input" ELSE ub
               /\ t' = t + 1
               /\ IF Consumes(in, ch)
                  THEN /\ stack' = <<[pc |-> th.pc + 1, saved |-> th.saved,
                                      sp |-> sp + 1, list |-> "next"]>>
                       /\ pcl' = "addthread"
                       /\ UNCHANGED heap
                  ELSE /\ heap' = Free(heap, th.saved)
                       /\ UNCHANGED <<stack, pcl>>
               /\ UNCHANGED <<stashed, match, status>>
    /\ UNCHANGED <<origin, tree, text, prog, orig, stderr, input, lastidx, nsave, curr,
                   next, sp>>
    /\ UNCHANGED calls

\* cont: (lines 204-211) and sp++: reached by goto from Match or when the loop
\* over t is finished
Cont ==
    /\ \/ pcl = "cont"
       \/ pcl = "inner" /\ t >= Len(curr)
    /\ curr' = next
    /\ next' = <<>>
    /\ sp' = sp + 1
    /\ pcl' = "outer"
    /\ UNCHANGED <<origin, tree, text, prog, orig, status, stderr, input, lastidx, nsave,
                   heap, stack, t, match, stashed, ub>>
    /\ UNCHANGED calls


\* int numsaves(instr *code, size_t ncode): the largest slot of a Save above
\* 0, plus one
numsaves(p) ==
    LET slots == {p[i].s : i \in {j \in 1..Len(p) : p[j].code = "Save"}}
    IN IF \E k \in slots : k > 0
       THEN (CHOOSE m \in slots : \A k \in slots : k <= m) + 1
       ELSE 1

-----------------------------------------------------------------------------
(* parse.c / regparse.h: parse trees.  A terminal carries a token and no     *)
(* children; a non-terminal carries its kind and up to four children.        *)

Leaf(sym, c) ==
    [nt |-> "TERMnt", tok |-> [sym |-> sym, c |-> c], children |-> <<>>]

Node(nt, children) ==
    [nt |-> nt, tok |-> [sym |-> "CharSym", c |-> NUL], children |-> children]

\* tree->nchildren
nchildren(tr) == Len(tr.children)

\* the value of the tree variable when no regex is being compiled
NoTree == Leaf("Eof", NUL)

-----------------------------------------------------------------------------
(* codegen.c: fragments and the code generator.  A fragment list is the      *)
(* sequence of the fragments reachable from its head through next; the NULL  *)
(* list is the empty sequence.  A result carries how the call ended ("ok",   *)
(* "exit" for exit(1), "crash" for a NULL dereference, "abort" for a failed  *)
(* assert), the list returned and the State after the call.                  *)

\* (instr*) -1 of join(): equal to no fragment id
NoLastId == -2

\* newfrag(code, s): the fragment; the caller advances s.id
newfrag(code, s) ==
    [in |-> Instr(code, NUL, 0, NoTarget, NoTarget, <<>>), id |-> s.id]

\* s after n calls of newfrag
Bump(s, n) == [s EXCEPT !.id = s.id + n]

Res(st, f, s) == [st |-> st, f |-> f, s |-> s]

\* join() without the redirection of the targets equal to lastid
RetargetMatchOnly(fr, lastid, bid) ==
    IF fr.in.code = "Match"
    THEN [fr EXCEPT !.in.code = "Jump", !.in.x = bid]
    ELSE fr

\* what join() does to one fragment of a that is not the last
Retarget(fr, lastid, bid) ==
    LET in1 == IF fr.in.code = "Match"
               THEN [fr.in EXCEPT !.code = "Jump", !.x = bid]
               ELSE fr.in
        in2 == IF in1.code \in {"Jump", "Split"} /\ in1.x = lastid
               THEN [in1 EXCEPT !.x = bid]
               ELSE in1
        in3 == IF in2.code = "Split" /\ in2.y = lastid
               THEN [in2 EXCEPT !.y = bid]
               ELSE in2
    IN [fr EXCEPT !.in = in3]

\* whether join() reads b->id for this fragment
ReadsB(fr, lastid) ==
    \/ fr.in.code = "Match"
    \/ fr.in.code \in {"Jump", "Split"} /\ fr.in.x = lastid
    \/ fr.in.code = "Split" /\ fr.in.y = lastid

\* whether join(a, b) links b behind a: only by replacing a final Match that
\* has a predecessor
JoinLinks(a) == Len(a) >= 2 /\ a[Len(a)].in.code = "Match"

\* join(a, b): the list reachable from a afterwards
join(a, b) ==
    IF a = <<>> THEN [st |-> "crash", f |-> <<>>]
    ELSE LET n == Len(a)
             l == a[n]
             lastid == IF l.in.code = "Match" THEN l.id ELSE NoLastId
             bid == IF b = <<>> THEN NoLastId ELSE b[1].id
             body == [i \in 1..(n - 1) |-> Retarget(a[i], lastid, bid)]
         IN IF b = <<>> /\ \E i \in 1..(n - 1) : ReadsB(a[i], lastid)
            THEN [st |-> "crash", f |-> <<>>]
            ELSE IF JoinLinks(a)
            THEN [st |-> "ok", f |-> body \o b]
            ELSE [st |-> "ok", f |-> body \o <<l>>]

\* the order of the two Split targets with the trailing '?' ignored
SplitOrderGreedy(tr, repeat, exit) == <<repeat, exit>>

\* the order of the two Split targets: first the one taken when the
\* quantifier has no trailing '?' (3 children make it non-greedy)
SplitOrder(tr, repeat, exit) ==
    IF nchildren(tr) = 3 THEN <<exit, repeat>> ELSE <<repeat, exit>>

SetXY(fr, xy) == [fr EXCEPT !.in.x = xy[1], !.in.y = xy[2]]

\* the result of a caller of join() that returns the joined list
Joined(j, s) == Res(j.st, j.f, s)

RECURSIVE regex(_, _)
RECURSIVE term(_, _)
RECURSIVE expr(_, _)
RECURSIVE sub(_, _)

\* term(), lines 163-169: the group whose opening Save is f and whose inner
\* regex() call returned r
TermGroup(f, r) ==
    IF r.st # "ok" THEN r
    ELSE Joined(join(<<f>> \o r.f,
                     <<[newfrag("Save", r.s) EXCEPT !.in.s = r.s.capture],
                       newfrag("Match", Bump(r.s, 1))>>),
                [id |-> r.s.id + 2, capture |-> r.s.capture + 1])

\* static Fragment *term(parse_tree *t, State *s)
term(tr, s) ==
    IF tr.nt # "TERMnt" THEN Res("abort", <<>>, s)
    ELSE IF nchildren(tr) = 1 THEN
        IF tr.children[1].tok.sym = "CharSym" THEN
            Res("ok", <<[newfrag("Char", s) EXCEPT !.in.c = tr.children[1].tok.c],
                        newfrag("Match", Bump(s, 1))>>, Bump(s, 2))
        ELSE IF tr.children[1].tok.sym = "Dot" THEN
            Res("ok", <<newfrag("Any", s), newfrag("Match", Bump(s, 1))>>,
                Bump(s, 2))
        ELSE
            \* Special: "not implemented" is printed and NULL returned
            Res("ok", <<>>, s)
    ELSE IF nchildren(tr) = 3 /\ tr.children[1].tok.sym = "RParen" THEN
        TermGroup([newfrag("Save", s) EXCEPT !.in.s = s.capture],
                  regex(tr.children[2],
                        [id |-> s.id + 1, capture |-> s.capture + 1]))
    ELSE
        \* "not implemented: term character class", exit(1)
        Res("exit", <<>>, s)

\* expr(), lines 198-214: TERM *
ExprStar(tr, f, s) ==
    LET c == newfrag("Match", Bump(s, 2))
        a == SetXY(newfrag("Split", s), SplitOrder(tr, f[1].id, c.id))
        b == [newfrag("Jump", Bump(s, 1)) EXCEPT !.in.x = a.id]
    IN Joined(join(<<a>> \o f, <<b, c>>), Bump(s, 3))

\* expr(), lines 223-236: TERM +
ExprPlus(tr, f, s) ==
    LET b == newfrag("Match", Bump(s, 1))
        a == SetXY(newfrag("Split", s), SplitOrder(tr, f[1].id, b.id))
        j == join(f, <<a>>)
    IN Res(j.st, IF JoinLinks(f) THEN j.f \o <<b>> ELSE j.f, Bump(s, 2))

\* expr(), lines 245-258: TERM ?
ExprQuestion(tr, f, s) ==
    LET b == newfrag("Match", Bump(s, 1))
        a == SetXY(newfrag("Split", s), SplitOrder(tr, f[1].id, b.id))
        j == join(f, <<b>>)
    IN Res(j.st, <<a>> \o j.f, Bump(s, 2))

\* expr() after its call of term() returned r
ExprOf(tr, r) ==
    IF r.st # "ok" \/ nchildren(tr) = 1 THEN r
    ELSE IF tr.children[2].tok.sym \notin {"Star", "Plus", "Question"}
         THEN Res("ok", <<>>, r.s)
    ELSE IF r.f = <<>> THEN Res("crash", <<>>, r.s)    \* f->id with f NULL
    ELSE IF tr.children[2].tok.sym = "Star" THEN ExprStar(tr, r.f, r.s)
    ELSE IF tr.children[2].tok.sym = "Plus" THEN ExprPlus(tr, r.f, r.s)
    ELSE ExprQuestion(tr, r.f, r.s)

\* static Fragment *expr(parse_tree *t, State *s)
expr(tr, s) ==
    IF tr.nt # "EXPRnt" THEN Res("abort", <<>>, s)
    ELSE ExprOf(tr, term(tr.children[1], s))

\* sub(), lines 273-274: join(e, s) with the results e and r of the two calls
SubJoin(e, r) ==
    IF r.st # "ok" THEN r ELSE Joined(join(e.f, r.f), r.s)

\* sub() after its call of expr() returned e
SubWith(tr, e) ==
    IF e.st # "ok" \/ nchildren(tr) # 2 THEN e
    ELSE SubJoin(e, sub(tr.children[2], e.s))

\* static Fragment *sub(parse_tree *tree, State *state)
sub(tr, s) ==
    IF tr.nt # "SUBnt" THEN Res("abort", <<>>, s)
    ELSE SubWith(tr, expr(tr.children[1], s))

\* regex(), lines 297-309: the alternation of the lists of l and r
RegexAlt(l, r) ==
    IF r.st # "ok" THEN r
    ELSE IF l.f = <<>> \/ r.f = <<>> THEN Res("crash", <<>>, r.s)
    ELSE LET pre == SetXY(newfrag("Split", r.s), <<l.f[1].id, r.f[1].id>>)
             m == newfrag("Match", Bump(r.s, 1))
             j == [newfrag("Jump", Bump(r.s, 2)) EXCEPT !.in.x = m.id]
             j1 == join(<<j>> \o r.f, <<m>>)
         IN IF j1.st # "ok" THEN Res(j1.st, <<>>, Bump(r.s, 3))
            ELSE Joined(join(<<pre>> \o l.f, j1.f), Bump(r.s, 3))

\* regex() after its call of sub() returned l
RegexWith(tr, l) ==
    IF l.st # "ok" \/ nchildren(tr) # 3 THEN l
    ELSE RegexAlt(l, regex(tr.children[3], l.s))

\* static Fragment *regex(parse_tree *tree, State *state)
regex(tr, s) ==
    IF tr.nt # "REGEXnt" THEN Res("abort", <<>>, s)
    ELSE RegexWith(tr, sub(tr.children[1], s))

\* the lookup table of codegen(): calloc'ed, so an id that no fragment of the
\* list carries is looked up as 0
targets(f, id) ==
    IF \E i \in 1..Len(f) : f[i].id = id
    THEN (CHOOSE i \in 1..Len(f) : f[i].id = id) - 1
    ELSE 0

\* the copy loop of codegen(): instruction i with its targets resolved
Resolve(f, in) ==
    LET in1 == IF in.code \in {"Jump", "Split"}
               THEN [in EXCEPT !.x = targets(f, in.x)] ELSE in
    IN IF in1.code = "Split" THEN [in1 EXCEPT !.y = targets(f, in.y)] ELSE in1

\* instr *codegen(parse_tree *tree, size_t *n): how it ended and the array
Flatten(r) ==
    IF r.st # "ok" THEN [st |-> r.st, code |-> <<>>]
    ELSE [st |-> "ok", code |-> [i \in 1..Len(r.f) |-> Resolve(r.f, r.f[i].in)]]

codegen(tr) == Flatten(regex(tr, [id |-> 0, capture |-> 0]))

-----------------------------------------------------------------------------
(* instr.c: the assembly writer.  A text is a sequence of characters.        *)

Digits == <<"0", "1", "2", "3", "4", "5", "6", "7", "8", "9">>

\* printf("%zu", n)
RECURSIVE Dec(_)
Dec(n) ==
    IF n < 10 THEN <<Digits[n + 1]>>
    ELSE Dec(n \div 10) \o <<Digits[(n % 10) + 1]>>

\* char *Opcodes[] (instr.c:35-37)
Opcodes ==
    [Char |-> <<"c", "h", "a", "r">>, Match |-> <<"m", "a", "t", "c", "h">>,
     Jump |-> <<"j", "u", "m", "p">>, Split |-> <<"s", "p", "l", "i", "t">>,
     Save |-> <<"s", "a", "v", "e">>]

Indent == <<" ", " ", " ", " ">>

\* the targets that the first loop of write_prog() marks in labels[]
Marked(p) ==
    {p[i].x : i \in {j \in 1..Len(p) : p[j].code \in {"Jump", "Split"}}}
    \cup {p[i].y : i \in {j \in 1..Len(p) : p[j].code = "Split"}}

\* whether every mark lands inside labels[]
MarksInside(p) == \A k \in Marked(p) : 0 <= k /\ k < Len(p)

\* labels[i] after the second loop of write_prog(): the marked instructions
\* numbered 1, 2, ... in index order, 0 for the others.  g is what a read
\* outside labels[] yields.
LabelOf(p, i, g) ==
    IF i < 0 \/ i >= Len(p) THEN g
    ELSE IF i \in Marked(p)
    THEN Cardinality({k \in Marked(p) : 0 <= k /\ k <= i})
    ELSE 0

\* the operand that write_prog() prints for a jump: "L%zu" of prog[i].x - prog
JumpOperand(p, in, g) == <<"L">> \o Dec(in.x)

\* the operands that write_prog() prints for a split
SplitOperands(p, in, g) ==
    <<"L">> \o Dec(LabelOf(p, in.x, g)) \o <<" ", "L">> \o Dec(LabelOf(p, in.y, g))

\* what the third loop of write_prog() prints for instruction i
WriteInstr(p, i, g) ==
    LET in == At(p, i)
        lab == IF LabelOf(p, i, g) > 0
               THEN <<"L">> \o Dec(LabelOf(p, i, g)) \o <<":", "\n">>
               ELSE <<>>
        body ==
            CASE in.code = "Char" -> Indent \o Opcodes.Char \o <<" ", in.c, "\n">>
              [] in.code = "Match" -> Indent \o Opcodes.Match \o <<"\n">>
              [] in.code = "Jump" ->
                     Indent \o Opcodes.Jump \o <<" ">> \o JumpOperand(p, in, g)
                     \o <<"\n">>
              [] in.code = "Split" ->
                     Indent \o Opcodes.Split \o <<" ">> \o SplitOperands(p, in, g)
                     \o <<"\n">>
              [] in.code = "Save" ->
                     Indent \o Opcodes.Save \o <<" ">> \o Dec(in.s) \o <<"\n">>
              [] OTHER -> <<>>
    IN lab \o body

RECURSIVE WriteFrom(_, _, _)
WriteFrom(p, i, g) ==
    IF i >= Len(p) THEN <<>> ELSE WriteInstr(p, i, g) \o WriteFrom(p, i + 1, g)

\* void write_prog(instr *prog, size_t n, FILE *f): the text written
write_prog(p, g) == WriteFrom(p, 0, g)

-----------------------------------------------------------------------------
(* instr.c: the assembly reader *)

SetMin(S) == CHOOSE m \in S : \A k \in S : m <= k
SetMax(S) == CHOOSE m \in S : \A k \in S : k <= m

\* a buffer as the C string it is: what precedes the first NUL
CStr(txt) ==
    LET nuls == {i \in 1..Len(txt) : txt[i] = NUL}
    IN IF nuls = {} THEN txt ELSE SubSeq(txt, 1, SetMin(nuls) - 1)

\* read_prog(), lines 203-222: the buffer cut at every newline
RECURSIVE SplitLines(_)
SplitLines(txt) ==
    LET nls == {i \in 1..Len(txt) : txt[i] = "\n"}
    IN IF nls = {} THEN <<txt>>
       ELSE <<SubSeq(txt, 1, SetMin(nls) - 1)>>
            \o SplitLines(SubSeq(txt, SetMin(nls) + 1, Len(txt)))

\* static char *trim(char *line, char *lastchar_out): the line without its
\* comment and its leading and trailing whitespace, and its last character
trim(line) ==
    LET cs == {i \in 1..Len(line) : line[i] = COMMENT}
        cut == IF cs = {} THEN Len(line) + 1 ELSE SetMin(cs)
        nonwhite == {i \in 1..(cut - 1) : ~IsSpace(line[i])}
    IN IF nonwhite = {} THEN [line |-> <<>>, last |-> NUL]
       ELSE [line |-> SubSeq(line, SetMin(nonwhite), SetMax(nonwhite)),
             last |-> line[SetMax(nonwhite)]]

\* read_prog(), lines 231-239: the type of a trimmed line
LineType(last) ==
    IF last = NUL THEN "Blank"
    ELSE IF last = ":" THEN "Label"
    ELSE "Code"

\* static size_t nextws(char *s)
nextws(str) ==
    LET ws == {i \in 1..Len(str) : IsSpace(str[i])}
    IN IF ws = {} THEN Len(str) ELSE SetMin(ws) - 1

\* static size_t skipws(char *s)
skipws(str) ==
    LET nw == {i \in 1..Len(str) : ~IsSpace(str[i])}
    IN IF nw = {} THEN Len(str) ELSE SetMin(nw) - 1

\* the tokens of a trimmed line: the maximal runs without whitespace
RECURSIVE Tokens(_)
Tokens(line) ==
    LET n == nextws(line) IN
    IF n = Len(line) THEN <<line>>
    ELSE LET rest == SubSeq(line, n + 2, Len(line))
         IN <<SubSeq(line, 1, n)>>
            \o Tokens(SubSeq(rest, skipws(rest) + 1, Len(rest)))

\* the loop of read_instr() fills at most nelem(tokens) = 5 slots and leaves
\* in i the number of tokens, or 4 when there are more than three
TokenSlots == 5
TokenCount(line) ==
    IF Len(Tokens(line)) >= TokenSlots - 1 THEN TokenSlots - 1 ELSE Len(Tokens(line))

DigitVal(ch) == (CHOOSE i \in 1..10 : Digits[i] = ch) - 1
IsDigit(ch) == \E i \in 1..10 : Digits[i] = ch

\* sscanf(tok, "%zu", &inst.s) on a zeroed inst.s: the value of the leading
\* digits (after an optional '+'), 0 when there are none
RECURSIVE ScanDigits(_, _)
ScanDigits(tok, acc) ==
    IF tok = <<>> \/ ~IsDigit(tok[1]) THEN acc
    ELSE ScanDigits(Tail(tok), acc * 10 + DigitVal(tok[1]))
sscanf(tok) ==
    IF tok # <<>> /\ tok[1] = "+" THEN ScanDigits(Tail(tok), 0)
    ELSE ScanDigits(tok, 0)

\* what read_instr() does when no opcode matches: the message is printed,
\* exit(1) is not called, and the zeroed inst is returned
UnknownOpcode == "unknown"

\* static instr read_instr(char *line, int lineno): st is "ok", "exit"
\* (message and exit(1)) or UnknownOpcode; xl and yl are the label
\* tokens that read_instr leaves in inst.x and inst.y (<<>> for NULL)
read_instr(line) ==
    LET tokens == Tokens(line)
        i == TokenCount(line)
        R(st, in, xl, yl) == [st |-> st, in |-> in, xl |-> xl, yl |-> yl]
        zero == Instr("Char", NUL, 0, NoTarget, NoTarget, <<>>)
        fatal == R("exit", zero, <<>>, <<>>)
    IN IF i = TokenSlots - 1 THEN fatal
       ELSE IF tokens[1] = Opcodes.Char THEN
           IF i # 2 THEN fatal ELSE R("ok", IChar(tokens[2][1]), <<>>, <<>>)
       ELSE IF tokens[1] = Opcodes.Match THEN
           IF i # 1 THEN fatal ELSE R("ok", IMatch, <<>>, <<>>)
       ELSE IF tokens[1] = Opcodes.Jump THEN
           IF i # 2 THEN fatal ELSE R("ok", IJump(NoTarget), tokens[2], <<>>)
       ELSE IF tokens[1] = Opcodes.Split THEN
           IF i # 3 THEN fatal
           ELSE R("ok", ISplit(NoTarget, NoTarget), tokens[2], tokens[3])
       ELSE IF tokens[1] = Opcodes.Save THEN
           IF i # 2 THEN fatal ELSE R("ok", ISave(sscanf(tokens[2])), <<>>, <<>>)
       ELSE R(UnknownOpcode, zero, <<>>, <<>>)

\* static size_t gettarget(...): the index of the first label equal to
\* label, or -1 for "label not found" and exit(1)
gettarget(labels, labelindices, label) ==
    LET hits == {i \in 1..Len(labels) : labels[i] = label}
    IN IF hits = {} THEN -1 ELSE labelindices[SetMin(hits)]

\* the indices in 1..n that satisfy the set S, in increasing order
RECURSIVE Ascending(_)
Ascending(S) ==
    IF S = {} THEN <<>> ELSE <<SetMin(S)>> \o Ascending(S \ {SetMin(S)})

\* read_prog(), lines 228-240: every line trimmed
TrimAll(lines) == [i \in 1..Len(lines) |-> trim(lines[i])]

\* read_prog(), lines 231-239: the type of every line
TypeAll(tl) == [i \in 1..Len(tl) |-> LineType(tl[i].last)]

\* the numbers of the lines of one type, in increasing order
LinesOfType(types, ty) == Ascending({i \in 1..Len(types) : types[i] = ty})

\* read_prog(), lines 249-251: the labels, each without its colon
LabelNames(tl, labelLines) ==
    [k \in 1..Len(labelLines) |->
        SubSeq(tl[labelLines[k]].line, 1, Len(tl[labelLines[k]].line) - 1)]

\* read_prog(), lines 245-256: labelindices[k] is codeidx + 1, one more than
\* the index of the last code line before the label
LabelIndices(types, labelLines) ==
    [k \in 1..Len(labelLines) |->
        Cardinality({i \in 1..Len(types) :
                        i < labelLines[k] /\ types[i] = "Code"})]

\* read_prog(), lines 267-275, on the result r of read_instr(): fatal when
\* exit(1) was called, msg when a message was printed, in the instruction
\* with its targets looked up
Lookup(r, labels, labelindices) ==
    LET x == IF r.xl = <<>> THEN NoTarget
             ELSE gettarget(labels, labelindices, r.xl)
        y == IF r.yl = <<>> THEN NoTarget
             ELSE gettarget(labels, labelindices, r.yl)
        bad == \/ r.st = "exit"
               \/ r.xl # <<>> /\ x = -1
               \/ r.yl # <<>> /\ y = -1
    IN [fatal |-> bad,
        msg |-> bad \/ r.st = UnknownOpcode,
        in |-> [r.in EXCEPT !.x = x, !.y = y]]

\* read_prog(), lines 262-287: the loop over the code lines, whose parsed
\* instructions are ones, up to the first that is fatal
Collect(ones, codeLines) ==
    LET fatals == {k \in 1..Len(ones) : ones[k].fatal}
        upto == IF fatals = {} THEN Len(ones) ELSE SetMin(fatals)
        done == IF fatals = {} THEN Len(ones) ELSE SetMin(fatals) - 1
    IN [st |-> IF fatals = {} THEN "ok" ELSE "exit",
        code |-> [k \in 1..done |-> ones[k].in],
        errs |-> Ascending({codeLines[k] : k \in {j \in 1..upto : ones[j].msg}})]

ReadCode(tl, codeLines, labels, labelindices) ==
    Collect([k \in 1..Len(codeLines) |->
                Lookup(read_instr(tl[codeLines[k]].line), labels, labelindices)],
            codeLines)

ReadTyped(tl, types, labelLines) ==
    ReadCode(tl, LinesOfType(types, "Code"), LabelNames(tl, labelLines),
             LabelIndices(types, labelLines))

ReadTrimmed(tl, types) == ReadTyped(tl, types, LinesOfType(types, "Label"))

\* instr *read_prog(char *str, size_t *ninstr): st is "ok" or "exit"; code is
\* the array (as far as it was filled when exit(1) was called); errs are the
\* line numbers of the messages printed
read_prog(txt) ==
    ReadTrimmed(TrimAll(SplitLines(CStr(txt))),
                TypeAll(TrimAll(SplitLines(CStr(txt)))))

-----------------------------------------------------------------------------
(* The parse trees of section 6.1, as parse.c builds them *)

\* TERM(): one child for a character, '.' or a special
TChar(c)    == Node("TERMnt", <<Leaf("CharSym", c)>>)
TDot        == Node("TERMnt", <<Leaf("Dot", ".")>>)
TSpecial(c) == Node("TERMnt", <<Leaf("Special", c)>>)

\* TERM(): ( REGEX )
TGroup(re) == Node("TERMnt", <<Leaf("LParen", "("), re, Leaf("RParen", ")")>>)

\* TERM(): [ CLASS ] and [ ^ CLASS ]
TClass(cl) ==
    Node("TERMnt", <<Leaf("LBracket", "["), cl, Leaf("RBracket", "]")>>)
TNClass(cl) ==
    Node("TERMnt", <<Leaf("LBracket", "["), Leaf("Caret", "^"), cl,
                     Leaf("RBracket", "]")>>)
ClassOf(c) == Node("CLASSnt", <<Leaf("CharSym", c)>>)

\* the token of a quantifier
Quant(q) ==
    CASE q = "Star" -> Leaf("Star", "*")
      [] q = "Plus" -> Leaf("Plus", "+")
      [] q = "Question" -> Leaf("Question", "?")

\* EXPR(): TERM, TERM quant, TERM quant ?
E(tm)      == Node("EXPRnt", <<tm>>)
EQ(tm, q)  == Node("EXPRnt", <<tm, Quant(q)>>)
ENG(tm, q) == Node("EXPRnt", <<tm, Quant(q), Leaf("Question", "?")>>)

\* SUB(): a right-linear list of EXPRs
RECURSIVE SubOf(_)
SubOf(es) ==
    IF Len(es) = 1 THEN Node("SUBnt", <<es[1]>>)
    ELSE Node("SUBnt", <<es[1], SubOf(Tail(es))>>)

\* REGEX(): SUB, or SUB | REGEX
RECURSIVE RegexOf(_)
RegexOf(ss) ==
    IF Len(ss) = 1 THEN Node("REGEXnt", <<ss[1]>>)
    ELSE Node("REGEXnt", <<ss[1], Leaf("Pipe", "|"), RegexOf(Tail(ss))>>)

\* a regex that is one SUB
Cat(es) == RegexOf(<<SubOf(es)>>)
\* a regex that is an alternation of SUBs
Alt(ess) == RegexOf([i \in 1..Len(ess) |-> SubOf(ess[i])])

-----------------------------------------------------------------------------
(* The regexes, programs and inputs the VM is run on *)

Ea == E(TChar("a"))
Eb == E(TChar("b"))

Tree_a        == Cat(<<Ea>>)                          \* a
Tree_astar    == Cat(<<EQ(TChar("a"), "Star")>>)      \* a*
Tree_astarNG  == Cat(<<ENG(TChar("a"), "Star")>>)     \* a*?
Tree_a_or_b   == Alt(<<<<Ea>>, <<Eb>>>>)              \* a|b
Tree_a_or_ab  == Alt(<<<<Ea>>, <<Ea, Eb>>>>)          \* a|ab
Tree_ab_or_a  == Alt(<<<<Ea, Eb>>, <<Ea>>>>)          \* ab|a
Tree_dot      == Cat(<<E(TDot)>>)                     \* .
\* (a+)(b+)
Tree_groups   == Cat(<<E(TGroup(Cat(<<EQ(TChar("a"), "Plus")>>))),
                       E(TGroup(Cat(<<EQ(TChar("b"), "Plus")>>)))>>)
\* (ab)+
Tree_abplus   == Cat(<<EQ(TGroup(Cat(<<Ea, Eb>>)), "Plus")>>)

VMTrees ==
    { Tree_a, Tree_astar, Tree_astarNG, Tree_a_or_b, Tree_a_or_ab,
      Tree_ab_or_a, Tree_dot, Tree_groups, Tree_abplus,
      Cat(<<EQ(TChar("a"), "Plus")>>),                \* a+
      Cat(<<ENG(TChar("a"), "Plus")>>),               \* a+?
      Cat(<<EQ(TChar("a"), "Question")>>),            \* a?
      Cat(<<ENG(TChar("a"), "Question")>>),           \* a??
      Cat(<<EQ(TDot, "Star")>>),                      \* .*
      Cat(<<ENG(TDot, "Plus")>>),                     \* .+?
      Cat(<<ENG(TDot, "Question")>>),                 \* .??
      Cat(<<EQ(TChar("a"), "Star"), Eb>>),            \* a*b
      Cat(<<ENG(TChar("a"), "Star"), Eb>>),           \* a*?b
      Cat(<<EQ(TDot, "Star"), Eb>>),                  \* .*b
      Cat(<<ENG(TDot, "Plus"), Ea>>),                 \* .+?a
      Cat(<<EQ(TChar("a"), "Question"), Ea>>),        \* a?a
      Cat(<<EQ(TChar("a"), "Star"), EQ(TChar("a"), "Question")>>),  \* a*a?
      Alt(<<<<Ea>>, <<Eb>>, <<Ea, Eb>>>>),            \* a|b|ab
      Alt(<<<<EQ(TChar("a"), "Star")>>, <<Eb>>>>),    \* a*|b
      Alt(<<<<ENG(TChar("a"), "Plus")>>, <<Ea, Ea>>>>),  \* a+?|aa
      Alt(<<<<Ea, EQ(TChar("b"), "Star")>>, <<E(TDot), Ea>>>>), \* ab*|.a
      Cat(<<E(TSpecial("w"))>>),                      \* \w
      Cat(<<Ea, E(TSpecial("w"))>>),                  \* a\w
      Cat(<<E(TClass(ClassOf("a")))>>) }              \* [a]

\* programs handed to execute() directly: the instr arrays that the
\* translation rules of the design give for (a+)(b+) and (ab)+, programs using
\* Range and NRange, programs whose epsilon instructions form cycles, a
\* program with nested saves and a program that saves slot 1 only
Prog_groups ==
    <<ISave(0), IChar("a"), ISplit(1, 3), ISave(1),
      ISave(2), IChar("b"), ISplit(5, 7), ISave(3), IMatch>>
Prog_abplus ==
    <<ISave(0), IChar("a"), IChar("b"), ISave(1), ISplit(0, 5), IMatch>>

\* two branches of a Split that meet again
Prog_diamond ==
    <<ISplit(1, 2), IJump(3), IJump(3), ISave(0), IChar("a"), ISplit(0, 6), IMatch>>

ApiPrograms ==
    { Prog_groups, Prog_abplus,
      <<IRange(<<"a", "b">>), IMatch>>,
      <<INRange(<<"a", "a">>), IMatch>>,
      <<ISplit(1, 3), IRange(<<"b", "b", "a", "a">>), IJump(0), INRange(<<"b", "x">>),
        IMatch>>,
      <<IRange(<<>>), IMatch>>,
      <<INRange(<<>>), IAny, IMatch>>,
      <<IJump(0)>>,
      <<ISplit(0, 1), IMatch>>,
      <<ISplit(1, 4), ISplit(2, 0), IChar("a"), IJump(1), IMatch>>,
      <<ISplit(3, 1), ISave(0), IJump(0), IChar("a"), ISave(1), ISplit(0, 6),
        IMatch>>,
      <<ISave(0), ISplit(2, 5), ISave(1), IAny, IJump(1), ISave(1), IMatch>>,
      Prog_diamond,
      <<ISave(1), IMatch>> }

RECURSIVE Strings(_)
Strings(n) ==
    IF n = 0 THEN {<<>>}
    ELSE Strings(n - 1) \cup
         {Append(w, c) : w \in {v \in Strings(n - 1) : Len(v) = n - 1},
                         c \in InputAlphabet}

\* the inputs of the documented scenarios
ScenarioInputs ==
    { <<"a", "a", "a", "b", "b", "b">>, <<"a", "b", "a", "b", "a", "b">>,
      <<"a", "a", "a", "a">>, <<"x">> }

Inputs == Strings(MaxInputLen) \cup ScenarioInputs

-----------------------------------------------------------------------------
(* The assembly texts that are read *)

\* words joined by single spaces
RECURSIVE Words(_)
Words(ws) ==
    IF Len(ws) = 1 THEN ws[1] ELSE ws[1] \o <<" ">> \o Words(Tail(ws))

\* lines joined by newlines
RECURSIVE Lines(_)
Lines(ls) ==
    IF Len(ls) = 1 THEN ls[1] ELSE ls[1] \o <<"\n">> \o Lines(Tail(ls))

Lbl(n) == <<"L">> \o Dec(n)
LblDef(n) == Lbl(n) \o <<":">>
OpChar(c) == Words(<<Opcodes.Char, <<c>>>>)
OpJump(l) == Words(<<Opcodes.Jump, l>>)
OpSplit(l1, l2) == Words(<<Opcodes.Split, l1, l2>>)
OpSave(n) == Words(<<Opcodes.Save, Dec(n)>>)
OpMatch == Opcodes.Match
Foo == <<"f", "o", "o">>

Text_a == Lines(<<OpChar("a"), OpMatch>>)
Text_aplus ==
    Lines(<<LblDef(1), OpChar("a"), OpSplit(Lbl(1), Lbl(2)), LblDef(2), OpMatch>>)
Text_stacked ==
    Lines(<<OpSplit(<<"A">>, <<"B">>), OpChar("a"), <<"A", ":">>, <<"B", ":">>,
            OpMatch>>)
Text_comments ==
    Lines(<<<<";", " ", "c">>, <<>>, <<" ", " ">> \o OpChar("a") \o <<" ", ";", "c">>,
            <<"\t">> \o OpMatch \o <<" ">>, <<>>>>)
Text_trailing_label == Lines(<<OpJump(Lbl(1)), LblDef(1)>>)
Text_unknown == Lines(<<Foo, OpMatch>>)
Text_colon_char == Lines(<<Indent \o OpChar(":"), Indent \o OpMatch>>)
Text_undefined == Lines(<<OpJump(Lbl(9)), OpMatch>>)

AsmTexts ==
    { Text_a, Text_aplus, Text_stacked, Text_comments, Text_trailing_label,
      Text_unknown, Text_colon_char, Text_undefined,
      \* missing operands
      Lines(<<Opcodes.Char, OpMatch>>),
      Lines(<<LblDef(1), Opcodes.Jump>>),
      Lines(<<LblDef(1), Words(<<Opcodes.Split, Lbl(1)>>)>>),
      Lines(<<Opcodes.Save, OpMatch>>),
      \* extra operands
      Lines(<<OpChar("a"), Words(<<OpMatch, <<"x">>>>)>>),
      Lines(<<Words(<<OpChar("a"), <<"b">>>>), OpMatch>>),
      Lines(<<Words(<<OpSave(1), <<"2">>>>), OpMatch>>),
      Lines(<<LblDef(1), Words(<<OpJump(Lbl(1)), Lbl(1)>>)>>),
      \* four and five tokens
      Lines(<<LblDef(1), Words(<<OpSplit(Lbl(1), Lbl(1)), Lbl(1)>>)>>),
      Lines(<<OpMatch, Words(<<Foo, <<"a">>, <<"b">>, <<"c">>, <<"d">>>>)>>),
      \* an unknown opcode with an operand, and one before a fatal line
      Lines(<<Words(<<Foo, <<"a">>>>), OpChar("a"), OpMatch>>),
      Lines(<<Foo, Opcodes.Char>>),
      \* saves
      Lines(<<OpSave(0), OpChar("a"), OpSave(1), OpMatch>>),
      Lines(<<OpSave(1), OpMatch>>),
      Lines(<<Words(<<Opcodes.Save, <<"x">>>>), OpMatch>>),
      Lines(<<Words(<<Opcodes.Save, <<"+", "1", "0">>>>), OpSave(0), OpMatch>>),
      \* a label defined twice, a label with a blank before the colon, a
      \* label line that holds an instruction, a lone colon
      Lines(<<LblDef(1), OpChar("a"), LblDef(1), OpJump(Lbl(1))>>),
      Lines(<<Words(<<Lbl(1), <<":">>>>), OpJump(Lbl(1))>>),
      Lines(<<OpJump(Lbl(1)) \o <<":">>, LblDef(1), OpMatch>>),
      Lines(<<<<":">>, OpMatch>>),
      \* unknown opcodes only, before the match
      Lines(<<Foo, Foo, Foo, Foo, OpMatch>>),
      \* the empty file
      <<>> }

\* the regexes of the round trip: those the VM is run on, and characters
\* that the assembly syntax uses itself
RoundTripTrees ==
    VMTrees \cup { Cat(<<E(TChar(":"))>>), Cat(<<E(TChar(";"))>>),
                   Cat(<<E(TChar(" "))>>) }

-----------------------------------------------------------------------------
(* main(): the program comes from a regex (recomp) or from an assembly file  *)
(* (fread_prog); a caller of the library hands execute() an array of its own *)

\* the VM state before execute() is entered
VMIdle ==
    /\ lastidx = <<>>
    /\ nsave = 0
    /\ heap = <<>>
    /\ curr = <<>>
    /\ next = <<>>
    /\ stack = <<>>
    /\ sp = 0
    /\ t = 0
    /\ match = -1
    /\ stashed = 0
    /\ ub = "none"
    /\ calls = 0

Init ==
    /\ orig = <<>>
    /\ status = "ok"
    /\ stderr = <<>>
    /\ \/ /\ origin = "regex"
          /\ tree \in VMTrees
          /\ text = <<>>
          /\ prog = <<>>
          /\ input \in Inputs
          /\ pcl = "compile"
       \/ /\ origin = "asm"
          /\ tree = NoTree
          /\ text \in AsmTexts
          /\ prog = <<>>
          /\ input \in Inputs
          /\ pcl = "read"
       \/ /\ origin = "api"
          /\ tree = NoTree
          /\ text = <<>>
          /\ prog \in ApiPrograms
          /\ input \in Inputs
          /\ pcl = "ready"
       \/ /\ origin = "roundtrip"
          /\ tree \in RoundTripTrees
          /\ text = <<>>
          /\ prog = <<>>
          /\ input = <<>>
          /\ pcl = "compile"
    /\ VMIdle

\* recomp(argv[1], &n): the code generator run on the parse tree
Recomp ==
    /\ pcl = "compile"
    /\ LET r == codegen(tree) IN
       /\ status' = r.st
       /\ prog' = r.code
       /\ pcl' = IF r.st = "ok" THEN "write" ELSE "stopped"
    /\ UNCHANGED <<origin, tree, text, orig, stderr, input, lastidx, nsave, heap,
                   curr, next, stack, sp, t, match, stashed, ub>>
    /\ UNCHANGED calls

\* fread_prog(in, &n): read_prog() on the contents of the file
FreadProg ==
    /\ pcl = "read"
    /\ LET r == read_prog(text) IN
       /\ status' = r.st
       /\ prog' = r.code
       /\ stderr' = r.errs
       /\ pcl' = IF r.st = "ok" THEN "write" ELSE "stopped"
    /\ UNCHANGED <<origin, tree, text, orig, input, lastidx, nsave, heap,
                   curr, next, stack, sp, t, match, stashed, ub>>
    /\ UNCHANGED calls

\* where main() and the round-trip driver go after write_prog()
AfterWrite == IF origin = "roundtrip" THEN "readback" ELSE "ready"

\* write_prog(code, n, stdout).  A target outside the array makes the writer
\* mark and read labels[] out of bounds.
WriteProg ==
    /\ pcl = "write"
    /\ orig' = prog
    /\ IF MarksInside(prog)
       THEN /\ text' = write_prog(prog, 0)
            /\ pcl' = AfterWrite
            /\ UNCHANGED <<status, ub>>
       ELSE /\ ub' = "oob_label"
            /\ \/ /\ status' = "crashed"
                  /\ pcl' = "stopped"
                  /\ UNCHANGED text
               \/ /\ \E g \in {0, 1} : text' = write_prog(prog, g)
                  /\ pcl' = AfterWrite
                  /\ UNCHANGED status
    /\ UNCHANGED <<origin, tree, prog, stderr, input, lastidx, nsave, heap,
                   curr, next, stack, sp, t, match, stashed>>
    /\ UNCHANGED calls

\* the round trip: read_prog() on the text that write_prog() produced
ReadBack ==
    /\ pcl = "readback"
    /\ LET r == read_prog(text) IN
       /\ status' = r.st
       /\ prog' = r.code
       /\ stderr' = r.errs
       /\ pcl' = "checked"
    /\ UNCHANGED <<origin, tree, text, orig, input, lastidx, nsave, heap,
                   curr, next, stack, sp, t, match, stashed, ub>>
    /\ UNCHANGED calls

Next ==
    \/ Recomp
    \/ FreadProg
    \/ WriteProg
    \/ ReadBack
    \/ ExecuteInit
    \/ AddThread
    \/ LoopTest
    \/ StepThread
    \/ Cont

Spec == Init /\ [][Next]_vars

\* the steps of execute()
Execute == ExecuteInit \/ AddThread \/ LoopTest \/ StepThread \/ Cont

\* a call of execute() keeps running as long as it has a step to take
FairSpec == Spec /\ WF_vars(Execute)

-----------------------------------------------------------------------------
(* Leftmost-first priority *)

\* input[i] for a reader that stays inside the string and its terminator
CharAt(i) == IF i < Len(input) THEN input[i + 1] ELSE NUL

\* The priority search: the threads of prog are tried one at a time in rank
\* order, at every Split the one continuing at x before the one continuing at
\* y, and the search ends at the first that gets to Match.  seen holds the
\* (pc, sp) pairs that a higher-ranked thread has been at; m is the match
\* length, -1 when no thread gets to Match.
RECURSIVE Search(_, _, _), SearchY(_, _, _)
Search(pc, i, seen) ==
    IF <<pc, i>> \in seen THEN [m |-> -1, seen |-> seen]
    ELSE LET in == At(prog, pc)
             s1 == seen \cup {<<pc, i>>}
         IN CASE in.code = "Match" -> [m |-> i, seen |-> s1]
              [] in.code = "Jump" -> Search(in.x, i, s1)
              [] in.code = "Save" -> Search(pc + 1, i, s1)
              [] in.code = "Split" -> SearchY(Search(in.x, i, s1), in.y, i)
              [] OTHER -> IF Consumes(in, CharAt(i))
                          THEN Search(pc + 1, i + 1, s1)
                          ELSE [m |-> -1, seen |-> s1]

\* the lower-ranked branch of a Split, tried when the higher-ranked one (whose
\* result is r) got nowhere
SearchY(r, y, i) == IF r.m # -1 THEN r ELSE Search(y, i, r.seen)

HighestPriorityMatch == Search(0, 0, {}).m

\* C1: whenever execute returns without undefined behaviour, the match length
\* is the one reached by the highest-priority thread that gets to Match, x
\* outranking y at every Split; the program compiled from a|ab returns 1 on
\* "ab" and the program compiled from ab|a returns 2 on "ab".
C1_LeftmostFirst ==
    /\ (pcl = "done" /\ ub = "none") => match = HighestPriorityMatch
    /\ (pcl = "done" /\ tree = Tree_a_or_ab /\ input = <<"a", "b">>)
          => (ub = "none" /\ match = 1)
    /\ (pcl = "done" /\ tree = Tree_ab_or_a /\ input = <<"a", "b">>)
          => (ub = "none" /\ match = 2)

\* a|ab has been run on "ab" and the shorter left arm has won
C1_Witness ==
    /\ pcl = "done"
    /\ tree = Tree_a_or_ab
    /\ input = <<"a", "b">>
    /\ match = 1
    /\ HighestPriorityMatch = 1

-----------------------------------------------------------------------------
(* Greediness *)

\* the EXPR of a regex that is one quantified TERM and nothing else
OnlyExpr(tr) == tr.children[1].children[1]

IsQuantifiedTerm(tr) ==
    /\ tr.nt = "REGEXnt"
    /\ nchildren(tr) = 1
    /\ nchildren(tr.children[1]) = 1
    /\ nchildren(OnlyExpr(tr)) >= 2

\* the index of the only instruction of p whose code is in codes
IndexOf(p, codes) == (CHOOSE i \in 1..Len(p) : p[i].code \in codes) - 1

\* C2: in the program that codegen returns for a TERM followed by *, + or ?,
\* the Split has the body of the repetition as x and the exit as y when the
\* quantifier is greedy, and the two swapped when a trailing ? makes it
\* non-greedy; execute on the program of a* with "aaa" returns 3 and on the
\* program of a*? with "aaa" returns 0.
C2_Greediness ==
    /\ (origin = "regex" /\ pcl # "compile" /\ prog # <<>>
           /\ IsQuantifiedTerm(tree))
          => /\ Cardinality({i \in 1..Len(prog) : prog[i].code = "Split"}) = 1
             /\ LET split == At(prog, IndexOf(prog, {"Split"}))
                    body == IndexOf(prog, {"Char", "Any"})
                    exit == IndexOf(prog, {"Match"})
                IN IF nchildren(OnlyExpr(tree)) = 2
                   THEN split.x = body /\ split.y = exit
                   ELSE split.x = exit /\ split.y = body
    /\ (pcl = "done" /\ tree = Tree_astar /\ input = <<"a", "a", "a">>)
          => (ub = "none" /\ match = 3)
    /\ (pcl = "done" /\ tree = Tree_astarNG /\ input = <<"a", "a", "a">>)
          => (ub = "none" /\ match = 0)

\* a*? has been compiled to a Split with the exit first, and has been run on
\* "aaa"
C2_Witness ==
    /\ pcl = "done"
    /\ tree = Tree_astarNG
    /\ input = <<"a", "a", "a">>
    /\ prog[1].code = "Split"
    /\ prog[1].x = 3
    /\ prog[1].y = 1
    /\ match = 0

-----------------------------------------------------------------------------
(* Capture correctness *)

\* the capture vector that execute() hands to the caller through saved
Captures == IF stashed = 0 THEN <<>> ELSE heap[stashed].vec

\* main() is through with the regex tr and the input inp
Finished(tr, inp) ==
    /\ origin = "regex"
    /\ tree = tr
    /\ input = inp
    /\ pcl \in {"done", "stopped"}

\* C3: the run of (a+)(b+) on "aaabbb" ends with a match and the captures
\* [0,3,3,6], and the run of (ab)+ on "ababab" ends with a match and the
\* captures [4,6].
C3_Captures ==
    /\ Finished(Tree_groups, <<"a", "a", "a", "b", "b", "b">>)
          => (pcl = "done" /\ match = 6 /\ Captures = <<0, 3, 3, 6>>)
    /\ Finished(Tree_abplus, <<"a", "b", "a", "b", "a", "b">>)
          => (pcl = "done" /\ match = 6 /\ Captures = <<4, 6>>)

-----------------------------------------------------------------------------
(* Assembly round trip *)

\* the opcodes of the assembly language
AsmCodes == {"Char", "Match", "Jump", "Split", "Save"}

\* p uses the instructions of the assembly language only
IsAsmProgram(p) == \A i \in 1..Len(p) : p[i].code \in AsmCodes

\* C4: when the text that write_prog emitted for a program of codegen made of
\* char, match, jump, split and save instructions has been read back, the
\* reader has succeeded and returned a program of the same length with the
\* same opcode, operand and target indices at every index.
C4_RoundTrip ==
    (origin = "roundtrip" /\ pcl = "checked" /\ IsAsmProgram(orig))
        => /\ status = "ok"
           /\ Len(prog) = Len(orig)
           /\ \A i \in 1..Len(orig) : prog[i] = orig[i]

-----------------------------------------------------------------------------
(* Writer labelling *)

\* the lines of the text written, and the numbers of those that hold an
\* instruction (the indented ones), in order
OutLines == SplitLines(text)
OutCode == Ascending({i \in 1..Len(OutLines) :
                         OutLines[i] # <<>> /\ OutLines[i][1] = " "})

\* the label printed on the line before instruction k, <<>> if there is none
OutLabel(k) ==
    LET i == OutCode[k + 1] IN
    IF i > 1 /\ OutLines[i - 1] # <<>> /\ OutLines[i - 1][1] # " "
    THEN SubSeq(OutLines[i - 1], 1, Len(OutLines[i - 1]) - 1)
    ELSE <<>>

\* the label that the claim assigns to instruction k of p
AssignedLabel(p, k) ==
    IF k \in Marked(p)
    THEN <<"L">> \o Dec(Cardinality({j \in Marked(p) : j <= k}))
    ELSE <<>>

\* C5: in the text write_prog has written, the instructions that are targets
\* of a jump or split, and only those, are preceded by a line with their
\* label, the labels are L1, L2, ... in instruction order, and the operands
\* printed for every jump and split are the labels of their targets.
C5_WriterLabels ==
    (orig # <<>> /\ MarksInside(orig) /\ IsAsmProgram(orig))
        => /\ Len(OutCode) = Len(orig)
           /\ \A k \in 0..(Len(orig) - 1) :
                 /\ OutLabel(k) = AssignedLabel(orig, k)
                 /\ At(orig, k).code = "Jump"
                       => OutLines[OutCode[k + 1]]
                            = Indent \o Opcodes.Jump \o <<" ">>
                              \o AssignedLabel(orig, At(orig, k).x)
                 /\ At(orig, k).code = "Split"
                       => OutLines[OutCode[k + 1]]
                            = Indent \o Opcodes.Split \o <<" ">>
                              \o AssignedLabel(orig, At(orig, k).x) \o <<" ">>
                              \o AssignedLabel(orig, At(orig, k).y)

-----------------------------------------------------------------------------
(* Reader label resolution *)

\* the elements of the sequence of numbers sq
Range(sq) == {sq[i] : i \in 1..Len(sq)}

\* idx is a valid index of the program read, and some label line holds the
\* name label and has idx code lines before it
Denotes(label, idx, tl, codeLines, labelLines) ==
    /\ 0 <= idx
    /\ idx < Len(codeLines)
    /\ \E j \in Range(labelLines) :
          /\ tl[j].line = label \o <<":">>
          /\ idx = Cardinality({c \in Range(codeLines) : c < j})

ResolvedIn(tl, codeLines, labelLines) ==
    \A k \in 1..Len(prog) :
        /\ prog[k].code \in {"Jump", "Split"}
              => Denotes(read_instr(tl[codeLines[k]].line).xl, prog[k].x,
                         tl, codeLines, labelLines)
        /\ prog[k].code = "Split"
              => Denotes(read_instr(tl[codeLines[k]].line).yl, prog[k].y,
                         tl, codeLines, labelLines)

Resolved(tl, types) ==
    ResolvedIn(tl, LinesOfType(types, "Code"), LinesOfType(types, "Label"))

\* C6: in the program read_prog returns, every jump and split operand is the
\* number of code lines before a label line with the operand's name, and it
\* is a valid index of the program.
C6_LabelResolution ==
    (origin = "asm" /\ pcl = "write")
        => Resolved(TrimAll(SplitLines(CStr(text))),
                    TypeAll(TrimAll(SplitLines(CStr(text)))))

-----------------------------------------------------------------------------
(* Line classification *)

\* the type the claim gives a trimmed line: Label only when identifier: is
\* its single token
ClaimedType(line) ==
    IF line = <<>> THEN "Blank"
    ELSE IF Len(Tokens(line)) = 1 /\ line[Len(line)] = ":" THEN "Label"
    ELSE "Code"

ClaimedCode(tl) ==
    Cardinality({i \in 1..Len(tl) : ClaimedType(tl[i].line) = "Code"})

\* C7: the program read_prog returns has one instruction for every line that
\* is neither blank nor a lone identifier: token, and the text of the two
\* lines "char :" and "match" is read as the two instructions char ':' and
\* match.
C7_LineClassification ==
    /\ (origin = "asm" /\ pcl = "write")
          => Len(prog) = ClaimedCode(TrimAll(SplitLines(CStr(text))))
    /\ (origin = "asm" /\ pcl = "write" /\ text = Text_colon_char)
          => prog = <<IChar(":"), IMatch>>

-----------------------------------------------------------------------------
(* Reader syntax errors *)

\* the number of tokens of a line with the opcode op, 0 for an unknown opcode
TokensFor(op) ==
    CASE op = Opcodes.Char -> 2
      [] op = Opcodes.Match -> 1
      [] op = Opcodes.Jump -> 2
      [] op = Opcodes.Split -> 3
      [] op = Opcodes.Save -> 2
      [] OTHER -> 0

\* a code line with an unknown opcode, a missing or extra operand, too many
\* tokens or an operand that is no label of the text
Erroneous(tk, labels) ==
    \/ Len(tk) # TokensFor(tk[1])
    \/ tk[1] \in {Opcodes.Jump, Opcodes.Split} /\ tk[2] \notin Range(labels)
    \/ tk[1] = Opcodes.Split /\ tk[3] \notin Range(labels)

NoErroneousLine(tl, codeLines, labelLines) ==
    \A k \in Range(codeLines) :
        ~Erroneous(Tokens(tl[k].line), LabelNames(tl, labelLines))

NoErroneous(tl, types) ==
    NoErroneousLine(tl, LinesOfType(types, "Code"), LinesOfType(types, "Label"))

\* C8: when read_prog has returned a program, no message has been printed and
\* no code line of the text has an unknown opcode, a missing or extra
\* operand, too many tokens or an undefined label operand.
C8_SyntaxErrorsFatal ==
    (origin = "asm" /\ pcl = "write")
        => /\ stderr = <<>>
           /\ NoErroneous(TrimAll(SplitLines(CStr(text))),
                          TypeAll(TrimAll(SplitLines(CStr(text)))))

-----------------------------------------------------------------------------
(* Totality of the code generator *)

\* p is a program whose jump and split targets are indices of p
IsResolved(p) ==
    /\ p # <<>>
    /\ \A i \in 1..Len(p) :
          /\ p[i].code \in {"Jump", "Split"} => (0 <= p[i].x /\ p[i].x < Len(p))
          /\ p[i].code = "Split" => (0 <= p[i].y /\ p[i].y < Len(p))

\* C9: for every parse tree of the shapes of section 6.1 codegen returns: it
\* raises no fatal error, and what it returns is a resolved program.
C9_CodegenTotal ==
    (origin = "regex" /\ (pcl = "write" \/ (pcl = "stopped" /\ orig = <<>>)))
        => (status = "ok" /\ IsResolved(prog))

-----------------------------------------------------------------------------
(* Wildcards and the end of the string *)

Wildcards == {"Any", "Range", "NRange"}

\* thread t of the current list, about to be stepped, is at a wildcard
AtWildcard ==
    /\ pcl = "inner"
    /\ t < Len(curr)
    /\ At(prog, curr[t + 1].pc).code \in Wildcards

\* the step hands the thread on to pc+1 at sp+1
Advances ==
    /\ pcl' = "addthread"
    /\ stack' = <<[pc |-> curr[t + 1].pc + 1, saved |-> curr[t + 1].saved,
                   sp |-> sp + 1, list |-> "next"]>>
    /\ heap' = heap

\* the step ends the thread: nothing is added and its vector is freed
Dies ==
    /\ pcl' = "inner"
    /\ stack' = stack
    /\ next' = next
    /\ ~heap'[curr[t + 1].saved].live

\* C10: a step of a thread at Any, Range or NRange either hands the thread
\* on to pc+1 at sp+1 or ends it; it ends it whenever input[sp] is the
\* terminator, and Any hands it on whenever input[sp] is a character; the
\* program of . returns no match on the empty input and 1 on "x".
C10_WildcardStopsAtEnd ==
    /\ [][(AtWildcard /\ t' # t)
            => /\ Advances \/ Dies
               /\ sp = Len(input) => Dies
               /\ (sp < Len(input) /\ At(prog, curr[t + 1].pc).code = "Any")
                     => Advances]_vars
    /\ [](/\ (pcl = "done" /\ tree = Tree_dot /\ input = <<>>)
                => (ub = "none" /\ match = -1)
          /\ (pcl = "done" /\ tree = Tree_dot /\ input = <<"x">>)
                => (ub = "none" /\ match = 1))

\* the program of . has been run on the empty input: its only thread read the
\* terminator and was ended
C10_Witness ==
    /\ pcl = "done"
    /\ tree = Tree_dot
    /\ input = <<>>
    /\ prog[1].code = "Any"
    /\ ~heap[1].live
    /\ match = -1

-----------------------------------------------------------------------------
(* The empty input *)

\* C11: on the empty input no addthread call is made for sp = 1, and execute
\* returns the match length 0 or no match.
C11_EmptyInput ==
    input = <<>>
        => /\ \A i \in 1..Len(stack) : stack[i].sp = 0
           /\ pcl = "done" => match \in {-1, 0}

-----------------------------------------------------------------------------
(* At most one visit *)

\* the step is a call of addthread() that gets past the lastidx check for an
\* instruction of the program: it pushes a call or appends a thread
Enters ==
    /\ pcl = "addthread"
    /\ stack # <<>>
    /\ 0 <= Head(stack).pc
    /\ Head(stack).pc < Len(prog)
    /\ \/ stack' # Tail(stack)
       \/ curr' # curr
       \/ next' # next

\* the threads of list tl are at different instructions
OnePerInstruction(tl) ==
    \A i, j \in 1..Len(tl) : tl[i].pc = tl[j].pc => i = j

\* C12: addthread enters an instruction only for a string index larger than
\* every index it entered it for before, hence at most once per index; each
\* thread list holds at most one thread per instruction and no more threads
\* than the program has instructions.
C12_AtMostOneVisit ==
    /\ [][Enters => lastidx[Head(stack).pc] < Head(stack).sp]_vars
    /\ [](/\ OnePerInstruction(curr)
          /\ OnePerInstruction(next)
          /\ Len(curr) <= Len(prog)
          /\ Len(next) <= Len(prog))

\* both branches of the Split of Prog_diamond have been followed at index 0:
\* the second arrived at an instruction already entered and was dropped
C12_Witness ==
    /\ prog = Prog_diamond
    /\ pcl = "outer"
    /\ sp = 0
    /\ Len(curr) = 1
    /\ Len(heap) = 2
    /\ ~heap[2].live

-----------------------------------------------------------------------------
(* Linearity *)

\* C13 as claimed: the addthread calls made during one input step (the
\* seeding, or the processing of one position sp) never number more than
\* the program has instructions.
C13_CallsWithinLength == calls <= Len(prog)

\* C13 as amended: the addthread calls made during one input step never
\* number more than twice the program length plus one.
C13_CallsLinear == calls <= 2 * Len(prog) + 1

\* the program of a*a? has stepped over the a of "a": seven calls for six
\* instructions
C13_Witness ==
    /\ origin = "regex"
    /\ Len(prog) = 6
    /\ prog[4].code = "Split"
    /\ input = <<"a">>
    /\ pcl = "inner"
    /\ sp = 0
    /\ calls = 7

-----------------------------------------------------------------------------
(* The cutoff at Match *)

\* thread t of the current list, about to be stepped, is at Match
AtMatch ==
    /\ pcl = "inner"
    /\ t < Len(curr)
    /\ At(prog, curr[t + 1].pc).code = "Match"

\* C14: the step of a thread at Match records sp as the result, adds nothing
\* to the next list and leaves no thread of the current list to be
\* processed; the lists are then swapped as they are, so the threads that
\* followed the Match contribute nothing, while what the threads before it
\* added to the next list stays.
C14_MatchCutsOff ==
    /\ [][AtMatch => /\ match' = sp
                     /\ next' = next
                     /\ stack' = <<>>
                     /\ curr' = curr
                     /\ ~(pcl' = "inner" /\ t' < Len(curr))]_vars
    /\ [][pcl = "cont" => (curr' = next /\ next' = <<>> /\ pcl' = "outer")]_vars

\* a thread at Match has been stepped while another thread followed it in
\* the current list and a thread before it had added one to the next list
C14_Witness ==
    /\ pcl = "cont"
    /\ match = sp
    /\ t >= 1
    /\ t + 1 < Len(curr)
    /\ next # <<>>

-----------------------------------------------------------------------------
(* Termination *)

\* C15: every call of execute ends: it returns, or the run has met undefined
\* behaviour and is not followed further; a program whose epsilon
\* instructions form a cycle returns as well.
C15_Terminates ==
    (pcl = "ready") ~> (pcl = "done" \/ (pcl = "stopped" /\ ub # "none"))

\* execute has returned for the program that is a Jump to itself
C15_Witness ==
    /\ prog = <<IJump(0)>>
    /\ pcl = "done"
    /\ ub = "none"
    /\ match = -1
    /\ lastidx[0] = 0

-----------------------------------------------------------------------------
(* The number of save slots *)

\* one more than the largest slot of a Save of p, zero when p has no Save
SlotCount(p) ==
    LET slots == {p[i].s : i \in {j \in 1..Len(p) : p[j].code = "Save"}}
    IN IF slots = {} THEN 0 ELSE SetMax(slots) + 1

\* C16: once execute has allocated the first capture vector, its length
\* nsave is one more than the largest Save slot of the program (zero without
\* a Save), numsaves reports the same number, and no Save has written
\* outside its vector.
C16_SaveSlots ==
    heap # <<>>
        => /\ nsave = SlotCount(prog)
           /\ numsaves(prog) = SlotCount(prog)
           /\ ub # "oob_save"

-----------------------------------------------------------------------------
(* Ownership of the capture vectors *)

\* the vectors held by the pending addthread calls and by the threads of the
\* next list, one entry per holder
Held == [i \in 1..Len(stack) |-> stack[i].saved]
        \o [i \in 1..Len(next) |-> next[i].saved]

\* C17: no vector is held by two threads, none is freed twice or used after
\* it was freed, and when execute has returned every vector allocated is
\* freed except the one handed to the caller.
C17_Ownership ==
    /\ \A i, j \in 1..Len(Held) : Held[i] = Held[j] => i = j
    /\ \A i, j \in 1..Len(curr) : curr[i].saved = curr[j].saved => i = j
    /\ ub \notin {"double_free", "use_after_free"}
    /\ (pcl = "done" /\ ub = "none")
          => \A v \in 1..Len(heap) : heap[v].live => v = stashed

-----------------------------------------------------------------------------
(* The length of a joined list *)

\* the number of fragments join(a, b) is to leave in the list headed by a
JoinedLen(a, b) ==
    IF a[Len(a)].in.code = "Match" THEN Len(a) + Len(b) - 1
    ELSE Len(a) + Len(b)

\* join(a, b) leaves the claimed number of fragments, the last of them b's
JoinKeeps(a, b) ==
    /\ join(a, b).st = "ok"
    /\ Len(join(a, b).f) = JoinedLen(a, b)
    /\ SubSeq(join(a, b).f, JoinedLen(a, b) - Len(b) + 1, JoinedLen(a, b)) = b

\* every two adjacent non-empty runs a, b of the fragments of f
JoinKeepsIn(f) ==
    \A i \in 1..Len(f), j \in 1..Len(f), k \in 1..Len(f) :
        (i <= j /\ j < k) => JoinKeeps(SubSeq(f, i, j), SubSeq(f, j + 1, k))

\* the fragment list regex() builds for the tree being compiled
Fragments == regex(tree, [id |-> 0, capture |-> 0])

\* C18: for any two non-empty fragment lists a and b, here taken from the
\* fragments generated for the tree, join(a, b) leaves |a| + |b| - 1
\* fragments in the list headed by a when a ends in a Match and |a| + |b|
\* otherwise, and the list ends with the fragments of b.
C18_JoinLength ==
    (tree # NoTree /\ pcl = "write" /\ Fragments.st = "ok")
        => JoinKeepsIn(Fragments.f)

-----------------------------------------------------------------------------
(* Symbolic targets *)

RECURSIVE Subtrees(_)
\* the nodes of tr that the generator functions are called on
Subtrees(tr) ==
    IF nchildren(tr) = 0 THEN {}
    ELSE {tr} \cup UNION {Subtrees(tr.children[i]) : i \in 1..nchildren(tr)}

\* the list the generator function of the node's non-terminal returns
Generated(tr) ==
    LET s == [id |-> 0, capture |-> 0]
    IN CASE tr.nt = "REGEXnt" -> regex(tr, s)
         [] tr.nt = "SUBnt" -> sub(tr, s)
         [] tr.nt = "EXPRnt" -> expr(tr, s)
         [] OTHER -> term(tr, s)

\* id is the ID of a fragment of f
Carried(f, id) == \E j \in 1..Len(f) : f[j].id = id

\* every symbolic target of f is the ID of a fragment of f
Closed(f) ==
    \A i \in 1..Len(f) :
        /\ f[i].in.code \in {"Jump", "Split"} => Carried(f, f[i].in.x)
        /\ f[i].in.code = "Split" => Carried(f, f[i].in.y)

\* index x of the program is the instruction made from the fragment named id
IndexOfId(f, x, id) == 0 <= x /\ x < Len(f) /\ f[x + 1].id = id

\* every target of p is the index of the instruction carrying the ID
Carries(f, p) ==
    /\ Len(p) = Len(f)
    /\ \A i \in 1..Len(f) :
          /\ f[i].in.code \in {"Jump", "Split"}
                => IndexOfId(f, p[i].x, f[i].in.x)
          /\ f[i].in.code = "Split" => IndexOfId(f, p[i].y, f[i].in.y)

-----------------------------------------------------------------------------
(* The save slots of capture groups *)

\* the TERM nodes of tr that are parenthesised groups
Groups(tr) ==
    {n \in Subtrees(tr) : /\ n.nt = "TERMnt"
                          /\ nchildren(n) = 3
                          /\ n.children[1].tok.sym = "LParen"}

\* the indices of p holding Save k
SavesOf(p, k) == {i \in 1..Len(p) : p[i].code = "Save" /\ p[i].s = k}

\* group k of p is opened by one Save 2k and closed, later, by one Save 2k+1
Paired(p, k) ==
    /\ Cardinality(SavesOf(p, 2 * k)) = 1
    /\ Cardinality(SavesOf(p, 2 * k + 1)) = 1
    /\ \A i \in SavesOf(p, 2 * k), j \in SavesOf(p, 2 * k + 1) : i < j

\* C20: for a parse tree with TERMs of the shape (LParen, REGEX, RParen)
\* codegen emits, for the group of ordinal k, Save 2k, the translation of the
\* inner REGEX, then Save 2k+1: a program with two Saves for each group, the
\* slots of one group being 2k and 2k+1.
C20_GroupSlots ==
    (Groups(tree) # {} /\ (pcl = "write" \/ (pcl = "stopped" /\ orig = <<>>)))
        => /\ status = "ok"
           /\ \A k \in 0..(Cardinality(Groups(tree)) - 1) : Paired(prog, k)
           /\ \A i \in 1..Len(prog) :
                 prog[i].code = "Save"
                     => prog[i].s < 2 * Cardinality(Groups(tree))

-----------------------------------------------------------------------------
(* The bounds of the input *)

\* C21: for a program returned by codegen or by read_prog, execute never
\* reads the input behind its terminator, no thread is created or stepped at
\* a string index larger than the length of the input, and the match length
\* reported is at most the length of the input.
C21_InputBounds ==
    origin \in {"regex", "asm"}
        => /\ ub # "oob_input"
           /\ \A i \in 1..Len(stack) : stack[i].sp <= Len(input)
           /\ (pcl = "inner" /\ t < Len(curr)) => sp <= Len(input)
           /\ pcl = "done" => match <= Len(input)

=============================================================================
